---- MODULE Spec2Model ----
(***************************************************************************)
(* Application-level hybrid search fusion (reciprocal rank fusion) of      *)
(* WorkingHybridSearchTest.fuse_search_results,                            *)
(* src/test_working_hybrid_search.py:262-318.                              *)
(*                                                                         *)
(* A Python dict is an insertion-ordered map: it is modelled as a sequence *)
(* of entries with distinct _id, in insertion order.  An optional value    *)
(* (a dict key that may be absent, or None) is a set: {} when absent,      *)
(* {v} when present.  Floats are modelled as exact rationals <<n, d>>      *)
(* with d > 0, in units of one tenth (weight 0.7 is 7).                    *)
(***************************************************************************)
EXTENDS Integers, Sequences, FiniteSets, TLC

VARIABLES
  vector_results,    \* argument: list of vector-search hits
  text_results,      \* argument: list of text-search hits
  vector_weight,     \* argument, in tenths
  text_weight,       \* argument, in tenths
  combined_results,  \* local dict, as a sequence of entries in insertion order
  rank,              \* enumerate() index of the running loop (0-based)
  pc,                \* "vector" | "text" | "sort" | "done" | "raised"
  sorted_results,    \* the returned list (<<>> until the function returns)
  aliased,           \* the input hits whose dict object combined_results holds
  client,            \* self.client: "None" or "client"
  collection,        \* the test collection, as the operations on it left it
  test_results,      \* self.test_results: list of records
  calls,             \* two concurrent calls of the method: their frames
  heap,              \* the dict objects the two calls created
  script,            \* which script's top-level run this is
  version,           \* buildInfo's version string, as a sequence of characters
  hpc,               \* position of the top-level run
  is_supported,      \* what setup returned ({} until it returns)
  features,          \* what check_feature_support returned ({} until then)
  closes,            \* number of calls of client.close()
  queried,           \* the search stages issued on the test collection
  phase,             \* index of the running test phase
  case_index,        \* index of the next test case of the phase
  summary            \* what print_summary printed ({} until it runs)

\* the state of a call of fuse_search_results
callVars == <<vector_results, text_results, vector_weight, text_weight,
              combined_results, rank, pc, sorted_results, aliased>>

\* the state of the object that owns the method
ownerVars == <<client, collection, test_results>>

\* two calls of fuse_search_results running side by side
pairVars == <<calls, heap>>

\* the top-level run of a script (run_all_tests / run_complete_check)
runVars == <<script, version, hpc, is_supported, features, closes, queried,
             phase, case_index, summary>>

vars == <<callVars, ownerVars, pairVars, runVars>>

----------------------------------------------------------------------------
(* Bounds and input domains *)

MaxLen == 2

Ids == {"a", "b", "c"}

\* ascending lexical order of the identifiers
IdOrd(id) == CASE id = "a" -> 1 [] id = "b" -> 2 [] id = "c" -> 3

\* weights in tenths: 0, 0.3, 0.7
Weights == {0, 3, 7}

Missing == {}

Hit(id, title, content, category, vscore, tscore) ==
  [_id |-> id, title |-> title, content |-> content, category |-> category,
   vector_score |-> vscore, text_score |-> tscore]

\* hits as the $vectorSearch + $project stage returns them, and one hit of a
\* document that has no title
VectorHits ==
  {Hit(id, {"vector title"}, {"content"}, {"category"}, {5}, Missing) : id \in Ids}
  \cup {Hit("b", Missing, {"content"}, {"category"}, {5}, Missing)}

\* hits as the $search + $project stage returns them, and one hit of a
\* document that has no category
TextHits ==
  {Hit(id, {"text title"}, {"content"}, {"category"}, Missing, {2}) : id \in Ids}
  \cup {Hit("c", {"text title"}, {"content"}, Missing, Missing, {2})}

SeqsUpTo(S, n) == UNION {[1..k -> S] : k \in 0..n}

----------------------------------------------------------------------------
(* Exact rational arithmetic standing for the float arithmetic *)

\* Sums are kept in lowest terms and two rationals are compared over the least
\* common denominator, so that every product stays a machine integer.
RECURSIVE GCD(_, _)
GCD(m, n) == IF n = 0 THEN m ELSE GCD(n, m % n)

LCM(m, n) == (m \div GCD(m, n)) * n

\* the numerator of x over the denominator L, a multiple of x's own
Scaled(x, L) == x[1] * (L \div x[2])

RatAdd(x, y) ==
  LET L == LCM(x[2], y[2])
      n == Scaled(x, L) + Scaled(y, L)
      g == GCD(L, n)
  IN <<n \div g, L \div g>>
RatEq(x, y) == LET L == LCM(x[2], y[2]) IN Scaled(x, L) = Scaled(y, L)
RatLess(x, y) == LET L == LCM(x[2], y[2]) IN Scaled(x, L) < Scaled(y, L)
RatLeq(x, y) == LET L == LCM(x[2], y[2]) IN Scaled(x, L) <= Scaled(y, L)
Zero == <<0, 1>>

----------------------------------------------------------------------------
(* dict operations *)

Keys(d) == {d[j]._id : j \in 1..Len(d)}

IndexOf(d, key) == CHOOSE j \in 1..Len(d) : d[j]._id = key

\* d[key]
DictGet(d, key) == d[IndexOf(d, key)]

\* mutant of DictSet: every assignment appends, also for a key already present
MutDictSet(d, key, value) == Append(d, value)

\* d[key] = value: an existing key keeps its position, a new key goes last
DictSet(d, key, value) ==
  IF key \in Keys(d)
    THEN [d EXCEPT ![IndexOf(d, key)] = value]
    ELSE Append(d, value)

\* mutant of GetOr0: no default, an absent native score is recorded as None
MutGetOr0(field) == field

\* result.get(field, 0) for an optional field
GetOr0(field) == IF field = Missing THEN {0} ELSE field

----------------------------------------------------------------------------
(* fuse_search_results *)

\* the smoothing constant of the reciprocal rank fusion formula
K == 60

\* mutant of ReciprocalRank: the rank term is not inverted, the score grows
\* with the rank
MutReciprocalRank(r) == <<r + 1 + K, 1>>

\* reciprocal_rank = 1.0 / (rank + 1 + 60), rank being enumerate()'s index
ReciprocalRank(r) == <<1, r + 1 + K>>

\* weighted_score = weight * reciprocal_rank
WeightedScore(weight, rr) == <<weight * rr[1], rr[2]>>

\* result['title'], result['content'], result['category'] raise KeyError
\* when the hit lacks the field
HasPayload(result) ==
  /\ result.title # Missing
  /\ result.content # Missing
  /\ result.category # Missing

\* mutant of VectorEntry: the fused score is the weighted native score, not
\* the weighted reciprocal rank
MutVectorEntryNative(result, r, weight) ==
  [_id |-> result._id,
   title |-> result.title,
   content |-> result.content,
   category |-> result.category,
   vector_score |-> GetOr0(result.vector_score),
   text_score |-> {0},
   vector_rank |-> {r + 1},
   text_rank |-> {},
   hybrid_score |-> <<weight * (CHOOSE x \in GetOr0(result.vector_score) : TRUE), 1>>]

\* the entry stored for a vector hit
VectorEntry(result, r, weight) ==
  [_id |-> result._id,
   title |-> result.title,
   content |-> result.content,
   category |-> result.category,
   vector_score |-> GetOr0(result.vector_score),
   text_score |-> {0},
   vector_rank |-> {r + 1},
   text_rank |-> {},
   hybrid_score |-> WeightedScore(weight, ReciprocalRank(r))]

\* mutant of TextEntry: the rank of the pipeline that did not retrieve the
\* candidate is filled with 0
MutTextEntryZeroRank(result, r, weight) ==
  [_id |-> result._id,
   title |-> result.title,
   content |-> result.content,
   category |-> result.category,
   vector_score |-> {0},
   text_score |-> GetOr0(result.text_score),
   vector_rank |-> {0},
   text_rank |-> {r + 1},
   hybrid_score |-> WeightedScore(weight, ReciprocalRank(r))]

\* the entry stored for a hit found only by the text search
TextEntry(result, r, weight) ==
  [_id |-> result._id,
   title |-> result.title,
   content |-> result.content,
   category |-> result.category,
   vector_score |-> {0},
   text_score |-> GetOr0(result.text_score),
   vector_rank |-> {},
   text_rank |-> {r + 1},
   hybrid_score |-> WeightedScore(weight, ReciprocalRank(r))]

\* mutant of TextMerge: the text contribution overwrites hybrid_score (= for +=)
MutTextMerge(entry, result, r, weight) ==
  [entry EXCEPT !.text_score = GetOr0(result.text_score),
                !.text_rank = {r + 1},
                !.hybrid_score = WeightedScore(weight, ReciprocalRank(r))]

\* mutant of TextMerge: the text hit's payload replaces the stored payload
MutTextMergePayload(entry, result, r, weight) ==
  [entry EXCEPT !.title = result.title,
                !.content = result.content,
                !.category = result.category,
                !.text_score = GetOr0(result.text_score),
                !.text_rank = {r + 1},
                !.hybrid_score = RatAdd(@, WeightedScore(weight, ReciprocalRank(r)))]

\* the update of an entry already in combined_results by a text hit
TextMerge(entry, result, r, weight) ==
  [entry EXCEPT !.text_score = GetOr0(result.text_score),
                !.text_rank = {r + 1},
                !.hybrid_score = RatAdd(@, WeightedScore(weight, ReciprocalRank(r)))]

\* one iteration of the loop over vector_results
VectorUpdate(d, result, r, weight) ==
  DictSet(d, result._id, VectorEntry(result, r, weight))

\* mutant of TextUpdate: the else branch is missing, a hit found only by the
\* text search is dropped
MutTextUpdate(d, result, r, weight) ==
  IF result._id \in Keys(d)
    THEN DictSet(d, result._id, TextMerge(DictGet(d, result._id), result, r, weight))
    ELSE d

\* one iteration of the loop over text_results
TextUpdate(d, result, r, weight) ==
  IF result._id \in Keys(d)
    THEN DictSet(d, result._id, TextMerge(DictGet(d, result._id), result, r, weight))
    ELSE DictSet(d, result._id, TextEntry(result, r, weight))

\* a text hit raises KeyError only in the else branch, which reads the payload
TextRaises(d, result) == result._id \notin Keys(d) /\ ~HasPayload(result)

\* insertion of x into a list sorted by hybrid_score descending, after every
\* element whose score is >= x's (the sort is stable)
RECURSIVE InsertDesc(_, _)
InsertDesc(s, x) ==
  IF s = <<>> THEN <<x>>
  ELSE IF RatLess(Head(s).hybrid_score, x.hybrid_score)
    THEN <<x>> \o s
    ELSE <<Head(s)>> \o InsertDesc(Tail(s), x)

\* mutant of SortedDesc: the values are returned in insertion order, unsorted
MutSortedDesc(d) == d

\* sorted(combined_results.values(), key=hybrid_score, reverse=True)
RECURSIVE SortedDesc(_)
SortedDesc(d) ==
  IF d = <<>> THEN <<>>
  ELSE InsertDesc(SortedDesc(SubSeq(d, 1, Len(d) - 1)), d[Len(d)])

\* mutant of StoredObject: the hit itself is stored under its id
\* (combined_results[doc_id] = result), not a new dict
MutStoredObject(list, r) == {<<list, r + 1>>}

\* the input hits (list name, 1-based index) whose dict object is the value
\* stored for hit r of a list: the dict displays `{...}` build a new dict
\* from the hit's field values, which are immutable, so none
StoredObject(list, r) == {}

\* obj after the item assignments upd (a function from keys to values)
Assign(obj, upd) ==
  [f \in DOMAIN obj \cup DOMAIN upd |->
     IF f \in DOMAIN upd THEN upd[f] ELSE obj[f]]

\* the input hits still held by combined_results once a value is stored
\* under doc_id by hit r of the list named name (the old value is dropped)
Stored(al, name, list, other, r) ==
  {a \in al : (IF a[1] = name THEN list ELSE other)[a[2]]._id # list[r + 1]._id}
    \cup StoredObject(name, r)

\* a list as the in-place assignments upd to combined_results[doc_id] leave
\* it: they reach a hit of the list only when that hit is the stored object
Written(name, list, al, doc_id, upd) ==
  [j \in 1..Len(list) |->
     IF <<name, j>> \in al /\ list[j]._id = doc_id
       THEN Assign(list[j], upd)
       ELSE list[j]]

\* the loop over vector_results from index r on: the dict it leaves, or raised
RECURSIVE VectorLoop(_, _, _, _)
VectorLoop(d, list, r, weight) ==
  IF r = Len(list) THEN [raised |-> FALSE, d |-> d]
  ELSE IF ~HasPayload(list[r + 1]) THEN [raised |-> TRUE, d |-> d]
  ELSE VectorLoop(VectorUpdate(d, list[r + 1], r, weight), list, r + 1, weight)

\* the loop over text_results from index r on: the dict it leaves, or raised
RECURSIVE TextLoop(_, _, _, _)
TextLoop(d, list, r, weight) ==
  IF r = Len(list) THEN [raised |-> FALSE, d |-> d]
  ELSE IF TextRaises(d, list[r + 1]) THEN [raised |-> TRUE, d |-> d]
  ELSE TextLoop(TextUpdate(d, list[r + 1], r, weight), list, r + 1, weight)

\* the outcome of a whole call fuse_search_results(v, t, wv, wt): the two
\* loops, then the sort; raised when a loop raised KeyError
FuseSearchResults(v, t, wv, wt) ==
  LET a == VectorLoop(<<>>, v, 0, wv) IN
    IF a.raised THEN [raised |-> TRUE, list |-> <<>>]
    ELSE LET b == TextLoop(a.d, t, 0, wt) IN
      IF b.raised THEN [raised |-> TRUE, list |-> <<>>]
      ELSE [raised |-> FALSE, list |-> SortedDesc(b.d)]

----------------------------------------------------------------------------
(* The call as a state machine *)

\* the collection once seed_test_data and create_search_indexes have run
SeededCollection ==
  [cleared |-> TRUE, seeded |-> TRUE, existing |-> {},
   created |-> {"vector_index", "text_index"}]

\* the owning object when test_working_hybrid_search calls the method: the
\* client is connected, the collection seeded, no result recorded yet
OwnerInTestPhase ==
  /\ client = "client"
  /\ collection = SeededCollection
  /\ test_results = <<>>

\* the run of WorkingHybridSearchTest when its test phase calls the method
RunInTestPhase ==
  /\ script = "working"
  /\ version = <<"8", ".", "0", ".", "4">>
  /\ hpc = "tests"
  /\ is_supported = {}
  /\ features = {}
  /\ closes = 0
  /\ queried = {}
  /\ phase = 1
  /\ case_index = 1
  /\ summary = {}

\* no second call runs beside the call
NoPair ==
  /\ calls = <<>>
  /\ heap = <<>>

Init ==
  /\ vector_results \in SeqsUpTo(VectorHits, MaxLen)
  /\ text_results \in SeqsUpTo(TextHits, MaxLen)
  /\ vector_weight \in Weights
  /\ text_weight \in Weights
  /\ combined_results = <<>>
  /\ rank = 0
  /\ pc = "vector"
  /\ sorted_results = <<>>
  /\ aliased = {}
  /\ OwnerInTestPhase
  /\ NoPair
  /\ RunInTestPhase

\* two identifiers, for the calls whose hits vary in their native score
NativeIds == {"a", "b"}

\* a hit's native score: absent, 0, or 5
NativeScores == {Missing, {0}, {5}}

\* vector hits with every native score, the payload complete
VectorHitsNative ==
  {Hit(id, {"vector title"}, {"content"}, {"category"}, s, Missing) :
     id \in NativeIds, s \in NativeScores}

\* text hits with every native score, the payload complete
TextHitsNative ==
  {Hit(id, {"text title"}, {"content"}, {"category"}, Missing, s) :
     id \in NativeIds, s \in NativeScores}

\* weights 0.3 and 0.7
WeightsNative == {3, 7}

\* a call on hits that differ in their native scores
InitNative ==
  /\ vector_results \in SeqsUpTo(VectorHitsNative, MaxLen)
  /\ text_results \in SeqsUpTo(TextHitsNative, MaxLen)
  /\ vector_weight \in WeightsNative
  /\ text_weight \in WeightsNative
  /\ combined_results = <<>>
  /\ rank = 0
  /\ pc = "vector"
  /\ sorted_results = <<>>
  /\ aliased = {}
  /\ OwnerInTestPhase
  /\ NoPair
  /\ RunInTestPhase

\* body of `for rank, result in enumerate(vector_results)`
VectorStep ==
  /\ pc = "vector"
  /\ rank < Len(vector_results)
  /\ LET result == vector_results[rank + 1] IN
       IF HasPayload(result)
         THEN /\ combined_results' =
                   VectorUpdate(combined_results, result, rank, vector_weight)
              /\ aliased' =
                   Stored(aliased, "vector", vector_results, text_results, rank)
              /\ rank' = rank + 1
              /\ pc' = pc
         ELSE /\ pc' = "raised"
              /\ UNCHANGED <<combined_results, rank, aliased>>
  /\ UNCHANGED <<vector_results, text_results, vector_weight, text_weight,
                 sorted_results, ownerVars, pairVars, runVars>>

\* the vector loop is exhausted; the text loop starts
VectorLoopEnd ==
  /\ pc = "vector"
  /\ rank = Len(vector_results)
  /\ pc' = "text"
  /\ rank' = 0
  /\ UNCHANGED <<vector_results, text_results, vector_weight, text_weight,
                 combined_results, sorted_results, aliased, ownerVars, pairVars, runVars>>

\* body of `for rank, result in enumerate(text_results)`
TextStep ==
  /\ pc = "text"
  /\ rank < Len(text_results)
  /\ LET result == text_results[rank + 1] IN
       IF TextRaises(combined_results, result)
         THEN /\ pc' = "raised"
              /\ UNCHANGED <<combined_results, rank, aliased,
                             vector_results, text_results>>
         ELSE /\ combined_results' =
                   TextUpdate(combined_results, result, rank, text_weight)
              /\ IF result._id \in Keys(combined_results)
                   THEN LET upd == [text_score |-> GetOr0(result.text_score),
                                    text_rank |-> {rank + 1}] IN
                          /\ vector_results' =
                               Written("vector", vector_results, aliased,
                                       result._id, upd)
                          /\ text_results' =
                               Written("text", text_results, aliased,
                                       result._id, upd)
                          /\ aliased' = aliased
                   ELSE /\ aliased' =
                             Stored(aliased, "text", text_results,
                                    vector_results, rank)
                        /\ UNCHANGED <<vector_results, text_results>>
              /\ rank' = rank + 1
              /\ pc' = pc
  /\ UNCHANGED <<vector_weight, text_weight, sorted_results, ownerVars, pairVars, runVars>>

\* the text loop is exhausted
TextLoopEnd ==
  /\ pc = "text"
  /\ rank = Len(text_results)
  /\ pc' = "sort"
  /\ UNCHANGED <<vector_results, text_results, vector_weight, text_weight,
                 combined_results, rank, sorted_results, aliased, ownerVars, pairVars, runVars>>

\* sorted_results = sorted(...); return sorted_results
SortAndReturn ==
  /\ pc = "sort"
  /\ sorted_results' = SortedDesc(combined_results)
  /\ pc' = "done"
  /\ UNCHANGED <<vector_results, text_results, vector_weight, text_weight,
                 combined_results, rank, aliased, ownerVars, pairVars, runVars>>

Next ==
  \/ VectorStep
  \/ VectorLoopEnd
  \/ TextStep
  \/ TextLoopEnd
  \/ SortAndReturn

Spec == Init /\ [][Next]_vars

SpecNative == InitNative /\ [][Next]_vars

----------------------------------------------------------------------------
(* Vocabulary of the properties *)

IdsOf(list) == {list[j]._id : j \in 1..Len(list)}

\* the 1-based positions of id in a pipeline's list
Positions(list, id) == {j \in 1..Len(list) : list[j]._id = id}

DuplicateFree(list) == \A id \in Ids : Cardinality(Positions(list, id)) <= 1

Returned == pc = "done"

\* the contributions weight / (rank + 60) a pipeline can give to id: none
\* (zero) when its list does not contain id, one per position otherwise
Contributions(list, id, weight) ==
  IF Positions(list, id) = {}
    THEN {Zero}
    ELSE {<<weight, p + K>> : p \in Positions(list, id)}

----------------------------------------------------------------------------
(* C1: the identifiers of the returned list are exactly the union of the
   identifiers of the two input lists: none lost, none invented. *)
C1_OutputIdsAreUnion ==
  Returned => Keys(sorted_results) = IdsOf(vector_results) \cup IdsOf(text_results)

\* a call that returned with a vector-only, a text-only and a shared candidate
C1_Witness ==
  /\ Returned
  /\ IdsOf(vector_results) \ IdsOf(text_results) # {}
  /\ IdsOf(text_results) \ IdsOf(vector_results) # {}
  /\ IdsOf(text_results) \cap IdsOf(vector_results) # {}

(* C2: the hybrid_score of every returned entry is the sum, over the
   pipelines whose list contains the candidate, of weight / (rank + 60) with
   rank the candidate's position in that list: one term per pipeline. *)
C2_ScoreIsWeightedRRF ==
  Returned =>
    \A j \in 1..Len(sorted_results) :
      LET e == sorted_results[j] IN
        \E x \in Contributions(vector_results, e._id, vector_weight),
           y \in Contributions(text_results, e._id, text_weight) :
          RatEq(e.hybrid_score, RatAdd(x, y))

(* C3: the returned list is ordered by hybrid_score descending: each entry's
   score is >= the score of the entry after it. *)
C3_SortedDescending ==
  Returned =>
    \A j \in 1..(Len(sorted_results) - 1) :
      RatLeq(sorted_results[j + 1].hybrid_score, sorted_results[j].hybrid_score)

\* a call that returned a list of at least two entries in another order than
\* the order the candidates were encountered in
C3_Witness ==
  /\ Returned
  /\ Len(sorted_results) >= 2
  /\ sorted_results # combined_results

(* C4: of two returned entries with equal hybrid_score, the one with the
   smaller identifier in ascending lexical order comes first. *)
C4_TieBreakById ==
  Returned =>
    \A j, k \in 1..Len(sorted_results) :
      (j < k /\ RatEq(sorted_results[j].hybrid_score, sorted_results[k].hybrid_score))
        => IdOrd(sorted_results[j]._id) < IdOrd(sorted_results[k]._id)

(* C6: the returned list holds each identifier at most once and is not
   truncated: its length is the number of distinct identifiers of the two
   input lists. *)
C6_NoDuplicateNoTruncation ==
  Returned =>
    /\ Len(sorted_results) =
         Cardinality(IdsOf(vector_results) \cup IdsOf(text_results))
    /\ \A j, k \in 1..Len(sorted_results) :
         sorted_results[j]._id = sorted_results[k]._id => j = k

\* a call that returned all three candidates from inputs that name a
\* candidate more than once
C6_Witness ==
  /\ Returned
  /\ Len(sorted_results) = Cardinality(Ids)
  /\ Len(vector_results) + Len(text_results) > Len(sorted_results)

(* C7: when an identifier appears twice within one pipeline's list, fusion
   fails: it never returns a fused list. *)
C7_DuplicateInPipelineFails ==
  (~DuplicateFree(vector_results) \/ ~DuplicateFree(text_results)) => ~Returned

(* C8: with all weights zero, fusion fails with a configuration error: it
   never returns a ranked list. *)
C8_AllZeroWeightsFail ==
  (vector_weight = 0 /\ text_weight = 0) => ~Returned

\* the list and weight of the only non-empty pipeline
OnlyList == IF text_results = <<>> THEN vector_results ELSE text_results
OnlyWeight == IF text_results = <<>> THEN vector_weight ELSE text_weight

(* C9: when one pipeline's list is empty and the other is non-empty and
   duplicate-free, the call does not raise, the returned order is the
   non-empty pipeline's own order, and each score is that pipeline's
   weight / (rank + 60). *)
C9_EmptyPipeline ==
  ( /\ (vector_results = <<>>) # (text_results = <<>>)
    /\ DuplicateFree(OnlyList) )
  => /\ pc # "raised"
     /\ Returned =>
          /\ Len(sorted_results) = Len(OnlyList)
          /\ \A j \in 1..Len(sorted_results) :
               /\ sorted_results[j]._id = OnlyList[j]._id
               /\ RatEq(sorted_results[j].hybrid_score, <<OnlyWeight, j + K>>)

(* C10: with non-negative weights, every returned candidate that is in the
   list of a pipeline with positive weight has hybrid_score > 0. *)
C10_PositiveScore ==
  (Returned /\ vector_weight >= 0 /\ text_weight >= 0) =>
    \A j \in 1..Len(sorted_results) :
      LET e == sorted_results[j] IN
        ( \/ (vector_weight > 0 /\ e._id \in IdsOf(vector_results))
          \/ (text_weight > 0 /\ e._id \in IdsOf(text_results)) )
        => RatLess(Zero, e.hybrid_score)

\* a call that returned a candidate found by both pipelines, one of weight 0
\* and one of positive weight
C10_Witness ==
  /\ Returned
  /\ vector_weight > 0
  /\ text_weight = 0
  /\ IdsOf(vector_results) \cap IdsOf(text_results) # {}


----------------------------------------------------------------------------
(* Vocabulary of the properties that compare two calls *)

\* the hybrid_score of id in a returned list
ScoreIn(list, id) == DictGet(list, id).hybrid_score

\* the list with the hits at positions p - 1 and p exchanged
Swap(list, p) == [list EXCEPT ![p - 1] = list[p], ![p] = list[p - 1]]

\* the sequence of identifiers of a list
IdSeq(list) == [j \in 1..Len(list) |-> list[j]._id]

(* C11: with positive weights, a candidate's hybrid_score is strictly higher
   (a) in the call where its rank in one pipeline is better by one and
   nothing else changes, and (b) when both pipelines retrieve it than when
   only one of them does, at the same rank. *)
C11_ScoreStrictlyIncreases ==
  (Returned /\ vector_weight > 0 /\ text_weight > 0) =>
    \A j \in 1..Len(sorted_results) :
      LET e == sorted_results[j]
          id == e._id
      IN
        /\ \A p \in 2..Len(vector_results) :
             Positions(vector_results, id) = {p} =>
               LET better == FuseSearchResults(Swap(vector_results, p), text_results,
                                               vector_weight, text_weight)
               IN /\ ~better.raised
                  /\ RatLess(e.hybrid_score, ScoreIn(better.list, id))
        /\ \A p \in 2..Len(text_results) :
             Positions(text_results, id) = {p} =>
               LET better == FuseSearchResults(vector_results, Swap(text_results, p),
                                               vector_weight, text_weight)
               IN /\ ~better.raised
                  /\ RatLess(e.hybrid_score, ScoreIn(better.list, id))
        /\ (id \in IdsOf(vector_results) /\ id \in IdsOf(text_results)) =>
             LET vonly == FuseSearchResults(vector_results, <<>>,
                                            vector_weight, text_weight)
                 tonly == FuseSearchResults(<<>>, text_results,
                                            vector_weight, text_weight)
             IN /\ ~vonly.raised
                /\ RatLess(ScoreIn(vonly.list, id), e.hybrid_score)
                /\ ~tonly.raised => RatLess(ScoreIn(tonly.list, id), e.hybrid_score)

\* a returned call with positive weights and a candidate that both pipelines
\* retrieved, at rank 2 of the vector list
C11_Witness ==
  /\ Returned
  /\ vector_weight > 0
  /\ text_weight > 0
  /\ \E id \in IdsOf(text_results) : Positions(vector_results, id) = {2}


\* two returned lists with the same identifiers in the same order and the
\* same hybrid_score at each position
SameRanking(l1, l2) ==
  /\ IdSeq(l1) = IdSeq(l2)
  /\ \A j \in 1..Len(l1) : RatEq(l1[j].hybrid_score, l2[j].hybrid_score)

(* C12: a pipeline of weight 0 is equivalent to excluding it: the call with
   text_weight = 0 returns the same identifiers, order and scores as the call
   with an empty text list, and symmetrically for vector_weight = 0. *)
C12_ZeroWeightExcludes ==
  Returned =>
    /\ text_weight = 0 =>
         LET without == FuseSearchResults(vector_results, <<>>,
                                          vector_weight, text_weight)
         IN ~without.raised /\ SameRanking(sorted_results, without.list)
    /\ vector_weight = 0 =>
         LET without == FuseSearchResults(<<>>, text_results,
                                          vector_weight, text_weight)
         IN ~without.raised /\ SameRanking(sorted_results, without.list)


\* id1 comes before id2 in a returned list that holds both
Before(list, id1, id2) == IndexOf(list, id1) < IndexOf(list, id2)

\* the weights greater than w that a call can be given
Raised(w) == {w2 \in Weights : w2 > w}

\* the candidates x, y of a pipeline's list whose relative position a raise
\* of that pipeline's weight must keep: all pairs
AllPairs(list) == {pr \in IdsOf(list) \X IdsOf(list) : pr[1] # pr[2]}

\* the pairs where the pipeline itself ranks x above y
RankedPairs(list) ==
  {pr \in AllPairs(list) :
     \A p \in Positions(list, pr[1]), q \in Positions(list, pr[2]) : p < q}

\* raising the vector weight, or the text weight, keeps x before y for every
\* pair <<x, y>> of Pairs(list) that the call returned in this order
KeepsOrder(Pairs(_)) ==
  /\ \A w2 \in Raised(vector_weight) :
       LET r == FuseSearchResults(vector_results, text_results, w2, text_weight) IN
         \A pr \in Pairs(vector_results) :
           Before(sorted_results, pr[1], pr[2]) => Before(r.list, pr[1], pr[2])
  /\ \A w2 \in Raised(text_weight) :
       LET r == FuseSearchResults(vector_results, text_results, vector_weight, w2) IN
         \A pr \in Pairs(text_results) :
           Before(sorted_results, pr[1], pr[2]) => Before(r.list, pr[1], pr[2])

(* C13 as stated: for duplicate-free lists, raising one pipeline's weight
   with the other weight and all ranks fixed moves no candidate of that
   pipeline behind another candidate of that pipeline.  It is stated for the
   calls whose weights are not all zero. *)
C13_WeightMonotoneAllPairs ==
  ( /\ Returned
    /\ DuplicateFree(vector_results)
    /\ DuplicateFree(text_results)
    /\ vector_weight + text_weight > 0 )
  => KeepsOrder(AllPairs)

(* C13 as amended: for duplicate-free lists, raising one pipeline's weight
   with the other weight and all ranks fixed never moves a candidate of that
   pipeline behind a candidate that this pipeline ranks lower. *)
C13_WeightMonotoneRankedPairs ==
  (Returned /\ DuplicateFree(vector_results) /\ DuplicateFree(text_results))
    => KeepsOrder(RankedPairs)

\* a returned call on duplicate-free lists where raising the vector weight
\* lifts a candidate over one that the vector pipeline ranks lower
C13_Witness ==
  /\ Returned
  /\ DuplicateFree(vector_results)
  /\ DuplicateFree(text_results)
  /\ \E w2 \in Raised(vector_weight) :
       \E pr \in RankedPairs(vector_results) :
         /\ Before(sorted_results, pr[2], pr[1])
         /\ Before(FuseSearchResults(vector_results, text_results,
                                     w2, text_weight).list, pr[1], pr[2])


\* the passthrough fields of a hit or of a returned entry
Payload(r) == <<r.title, r.content, r.category>>

(* C14: a returned entry carries the payload of a vector hit when the vector
   list contains the candidate; it carries the payload of a text hit only
   when the vector list does not contain the candidate. *)
C14_VectorPayloadWins ==
  Returned =>
    \A j \in 1..Len(sorted_results) :
      LET e == sorted_results[j] IN
        IF e._id \in IdsOf(vector_results)
          THEN \E p \in Positions(vector_results, e._id) :
                 Payload(e) = Payload(vector_results[p])
          ELSE \E p \in Positions(text_results, e._id) :
                 Payload(e) = Payload(text_results[p])

\* a returned call where both lists hold a candidate, with different payloads
C14_Witness ==
  /\ Returned
  /\ \E p \in 1..Len(vector_results), q \in 1..Len(text_results) :
       /\ vector_results[p]._id = text_results[q]._id
       /\ Payload(vector_results[p]) # Payload(text_results[q])


\* the scenario's call: vector = [A, B] with weight 0.7, text = [B, C] with
\* weight 0.3
ScenarioInput ==
  /\ IdSeq(vector_results) = <<"a", "b">>
  /\ IdSeq(text_results) = <<"b", "c">>
  /\ vector_weight = 7
  /\ text_weight = 3

(* C15: fusing vector = [A, B] with weight 0.7 and text = [B, C] with weight
   0.3 returns the order [B, A, C] with the scores A = 0.7/61,
   B = 0.7/62 + 0.3/61, C = 0.3/62. *)
C15_Scenario ==
  (Returned /\ ScenarioInput) =>
    /\ IdSeq(sorted_results) = <<"b", "a", "c">>
    /\ RatEq(ScoreIn(sorted_results, "a"), <<7, 1 + K>>)
    /\ RatEq(ScoreIn(sorted_results, "b"), RatAdd(<<7, 2 + K>>, <<3, 1 + K>>))
    /\ RatEq(ScoreIn(sorted_results, "c"), <<3, 2 + K>>)

\* the scenario's call has returned
C15_Witness == Returned /\ ScenarioInput


(* C16: when both pipelines return the same sequence of identifiers and the
   weights are equal and positive, the returned order is that sequence. *)
C16_IdenticalPipelines ==
  ( /\ Returned
    /\ IdSeq(vector_results) = IdSeq(text_results)
    /\ vector_weight = text_weight
    /\ vector_weight > 0 )
  => IdSeq(sorted_results) = IdSeq(vector_results)


\* the list with every native score removed from its hits
StripNative(list) ==
  [j \in 1..Len(list) |->
     [list[j] EXCEPT !.vector_score = Missing, !.text_score = Missing]]

(* C17: native scores are advisory: a call returns the same order and the
   same hybrid_score for every candidate as the call on the same hits
   without their native scores, so any two calls that differ only in native
   scores return the same ranking. *)
C17_NativeScoresAdvisory ==
  Returned =>
    LET bare == FuseSearchResults(StripNative(vector_results),
                                  StripNative(text_results),
                                  vector_weight, text_weight)
    IN ~bare.raised /\ SameRanking(sorted_results, bare.list)

\* a returned call whose vector list is in ascending order of native score
\* and whose text hits carry native scores
C17_Witness ==
  /\ Returned
  /\ Len(vector_results) = 2
  /\ vector_results[1]._id # vector_results[2]._id
  /\ vector_results[1].vector_score = {0}
  /\ vector_results[2].vector_score = {5}
  /\ \E q \in 1..Len(text_results) : text_results[q].text_score = {5}


(* C18: a returned entry records a rank for a pipeline exactly when that
   pipeline's list contains the candidate, and the rank is a 1-based position
   of the candidate in the list; for a pipeline that did not retrieve the
   candidate the rank is None, never a number, which tells it apart from a
   candidate retrieved with native score 0. *)
C18_RankMarksRetrieval ==
  Returned =>
    \A j \in 1..Len(sorted_results) :
      LET e == sorted_results[j] IN
        /\ (e.vector_rank # {}) <=> (e._id \in IdsOf(vector_results))
        /\ e.vector_rank \subseteq Positions(vector_results, e._id)
        /\ (e.text_rank # {}) <=> (e._id \in IdsOf(text_results))
        /\ e.text_rank \subseteq Positions(text_results, e._id)

\* a returned call with a candidate the vector pipeline retrieved with native
\* score 0 and a candidate it did not retrieve
C18_Witness ==
  /\ Returned
  /\ \E j, k \in 1..Len(sorted_results) :
       /\ sorted_results[j].vector_score = {0}
       /\ sorted_results[j].vector_rank # {}
       /\ sorted_results[k].vector_score = {0}
       /\ sorted_results[k].vector_rank = {}


\* the last position of id in a list that contains it
LastPosition(list, id) ==
  CHOOSE p \in Positions(list, id) : \A q \in Positions(list, id) : q <= p

\* the step that processes a vector hit without native score stores it with
\* vector_score 0, its rank and its whole weighted contribution
ScorelessVectorHitStored ==
  ( /\ pc = "vector"
    /\ rank < Len(vector_results)
    /\ vector_results[rank + 1].vector_score = Missing
    /\ pc' # "raised" )
  => LET e == DictGet(combined_results', vector_results[rank + 1]._id) IN
       /\ e.vector_score = {0}
       /\ e.vector_rank = {rank + 1}
       /\ RatEq(e.hybrid_score, <<vector_weight, rank + 1 + K>>)

\* the step that processes a text hit without native score stores it with
\* text_score 0 and its rank, and adds its whole weighted contribution
ScorelessTextHitStored ==
  ( /\ pc = "text"
    /\ rank < Len(text_results)
    /\ text_results[rank + 1].text_score = Missing
    /\ pc' # "raised" )
  => LET id == text_results[rank + 1]._id
         e == DictGet(combined_results', id)
         before == IF id \in Keys(combined_results)
                     THEN DictGet(combined_results, id).hybrid_score
                     ELSE Zero
     IN /\ e.text_score = {0}
        /\ e.text_rank = {rank + 1}
        /\ RatEq(e.hybrid_score, RatAdd(before, <<text_weight, rank + 1 + K>>))

\* in the returned list a candidate whose last hit in a pipeline has no
\* native score has native score 0 and that hit's rank for the pipeline
ScorelessHitsReturned ==
  Returned =>
    \A j \in 1..Len(sorted_results) :
      LET e == sorted_results[j] IN
        /\ \A p \in Positions(vector_results, e._id) :
             ( /\ p = LastPosition(vector_results, e._id)
               /\ vector_results[p].vector_score = Missing )
             => (e.vector_score = {0} /\ e.vector_rank = {p})
        /\ \A p \in Positions(text_results, e._id) :
             ( /\ p = LastPosition(text_results, e._id)
               /\ text_results[p].text_score = Missing )
             => (e.text_score = {0} /\ e.text_rank = {p})

(* C19: a hit without native score is accepted: the step that processes it
   records native score 0, the hit's rank and its full weighted contribution
   weight / (rank + 60), and the returned entry keeps the candidate marked as
   retrieved by that pipeline. *)
C19_MissingNativeScoreIsZero ==
  /\ [][ScorelessVectorHitStored /\ ScorelessTextHitStored]_vars
  /\ []ScorelessHitsReturned

\* a returned call with a vector hit and a text hit without native score
C19_Witness ==
  /\ Returned
  /\ \E p \in 1..Len(vector_results) : vector_results[p].vector_score = Missing
  /\ \E q \in 1..Len(text_results) : text_results[q].text_score = Missing


(* C20: the payload is opaque: for every pair of duplicate-free lists the
   call raises no error, whichever of title, content and category a hit
   carries or lacks. *)
C20_PayloadOpaque ==
  (DuplicateFree(vector_results) /\ DuplicateFree(text_results)) => pc # "raised"


----------------------------------------------------------------------------
(* C21: fuse_search_results is pure: no step of a call changes either input
   list (same hits, same order, same field values) or the state of the
   owning object (client, collection, test_results). *)
C21_InputsAndOwnerUnchanged ==
  [][/\ vector_results' = vector_results
     /\ text_results' = text_results
     /\ client' = client
     /\ collection' = collection
     /\ test_results' = test_results]_vars

\* a call that returned after a text hit was merged into the entry stored
\* for a vector hit (the in-place assignments of the text loop have run)
C21_Witness ==
  /\ Returned
  /\ \E j \in 1..Len(sorted_results) :
       /\ sorted_results[j].vector_rank # {}
       /\ sorted_results[j].text_rank # {}
  /\ aliased = {}


----------------------------------------------------------------------------
(* Two calls of fuse_search_results with their steps interleaved *)

MaxLenPair == 1

Invocations == {1, 2}

\* complete hits of the two pipelines
PairVectorHits ==
  {Hit(id, {"vector title"}, {"content"}, {"category"}, {5}, Missing) :
     id \in NativeIds}

PairTextHits ==
  {Hit(id, {"text title"}, {"content"}, {"category"}, Missing, {2}) :
     id \in NativeIds}

\* the frame of a call entered with the arguments v, t, wv, wt; the local
\* combined_results is not bound yet (0)
Frame(v, t, wv, wt) ==
  [vector_results |-> v, text_results |-> t,
   vector_weight |-> wv, text_weight |-> wt,
   combined_results |-> 0, rank |-> 0, pc |-> "entry",
   sorted_results |-> <<>>]

\* mutant of NewDict: every call binds combined_results to one and the same
\* dict object
MutNewDict(i) == 1

\* the object `combined_results = {}` creates in call i: a new dict per call
NewDict(i) == i

\* both calls entered, as test_working_hybrid_search enters them (weights
\* 0.7 and 0.3), on independent inputs
InitPair ==
  /\ calls \in [Invocations ->
                  {Frame(v, t, 7, 3) : v \in SeqsUpTo(PairVectorHits, MaxLenPair),
                                       t \in SeqsUpTo(PairTextHits, MaxLenPair)}]
  /\ heap = [o \in Invocations |-> <<>>]
  /\ vector_results = <<>>
  /\ text_results = <<>>
  /\ vector_weight = 7
  /\ text_weight = 3
  /\ combined_results = <<>>
  /\ rank = 0
  /\ pc = "done"
  /\ sorted_results = <<>>
  /\ aliased = {}
  /\ OwnerInTestPhase
  /\ RunInTestPhase

\* combined_results = {}
CallEntry(i) ==
  /\ calls[i].pc = "entry"
  /\ calls' = [calls EXCEPT ![i].combined_results = NewDict(i),
                            ![i].pc = "vector"]
  /\ heap' = [heap EXCEPT ![NewDict(i)] = <<>>]
  /\ UNCHANGED <<callVars, ownerVars, runVars>>

\* body of the loop over vector_results, in call i
CallVectorStep(i) ==
  LET f == calls[i]
      result == f.vector_results[f.rank + 1] IN
    /\ f.pc = "vector"
    /\ f.rank < Len(f.vector_results)
    /\ IF HasPayload(result)
         THEN /\ heap' = [heap EXCEPT ![f.combined_results] =
                            VectorUpdate(@, result, f.rank, f.vector_weight)]
              /\ calls' = [calls EXCEPT ![i].rank = @ + 1]
         ELSE /\ calls' = [calls EXCEPT ![i].pc = "raised"]
              /\ heap' = heap
    /\ UNCHANGED <<callVars, ownerVars, runVars>>

\* the vector loop of call i is exhausted
CallVectorLoopEnd(i) ==
  /\ calls[i].pc = "vector"
  /\ calls[i].rank = Len(calls[i].vector_results)
  /\ calls' = [calls EXCEPT ![i].pc = "text", ![i].rank = 0]
  /\ UNCHANGED <<heap, callVars, ownerVars, runVars>>

\* body of the loop over text_results, in call i
CallTextStep(i) ==
  LET f == calls[i]
      result == f.text_results[f.rank + 1]
      d == heap[f.combined_results] IN
    /\ f.pc = "text"
    /\ f.rank < Len(f.text_results)
    /\ IF TextRaises(d, result)
         THEN /\ calls' = [calls EXCEPT ![i].pc = "raised"]
              /\ heap' = heap
         ELSE /\ heap' = [heap EXCEPT ![f.combined_results] =
                            TextUpdate(@, result, f.rank, f.text_weight)]
              /\ calls' = [calls EXCEPT ![i].rank = @ + 1]
    /\ UNCHANGED <<callVars, ownerVars, runVars>>

\* the text loop of call i is exhausted
CallTextLoopEnd(i) ==
  /\ calls[i].pc = "text"
  /\ calls[i].rank = Len(calls[i].text_results)
  /\ calls' = [calls EXCEPT ![i].pc = "sort"]
  /\ UNCHANGED <<heap, callVars, ownerVars, runVars>>

\* call i sorts and returns
CallSortAndReturn(i) ==
  /\ calls[i].pc = "sort"
  /\ calls' = [calls EXCEPT
                 ![i].sorted_results = SortedDesc(heap[calls[i].combined_results]),
                 ![i].pc = "done"]
  /\ UNCHANGED <<heap, callVars, ownerVars, runVars>>

NextPair ==
  \E i \in Invocations :
    \/ CallEntry(i)
    \/ CallVectorStep(i)
    \/ CallVectorLoopEnd(i)
    \/ CallTextStep(i)
    \/ CallTextLoopEnd(i)
    \/ CallSortAndReturn(i)

SpecPair == InitPair /\ [][NextPair]_vars

\* what call i returns when it runs alone
Alone(i) ==
  FuseSearchResults(calls[i].vector_results, calls[i].text_results,
                    calls[i].vector_weight, calls[i].text_weight)

\* the dict objects call i has bound
DictsOf(i) == {calls[i].combined_results} \ {0}

(* C22: of two calls on independent inputs whose steps interleave in any
   order, each returns exactly the list it returns when run alone, and no
   step of a call changes the other call's frame or the other call's dict. *)
C22_InterleavedCallsIndependent ==
  /\ [](\A i \in Invocations :
          /\ calls[i].pc = "done" =>
               /\ ~Alone(i).raised
               /\ calls[i].sorted_results = Alone(i).list
          /\ \A j \in Invocations \ {i} : DictsOf(i) \cap DictsOf(j) = {})
  /\ [][\A i \in Invocations :
          calls[i]' # calls[i] =>
            \A j \in Invocations \ {i} :
              /\ calls[j]' = calls[j]
              /\ \A o \in DictsOf(j) : heap[o]' = heap[o]]_vars

\* both calls returned a non-empty list, and they stored entries for the
\* same identifier while the other call was still running
C22_Witness ==
  /\ \A i \in Invocations :
       calls[i].pc = "done" /\ calls[i].sorted_results # <<>>
  /\ Keys(calls[1].sorted_results) \cap Keys(calls[2].sorted_results) # {}
  /\ calls[1].sorted_results # calls[2].sorted_results


----------------------------------------------------------------------------
(* A call that passes only the two lists *)

\* the parameter defaults of the signature, in tenths: 0.7 and 0.3
DefaultVectorWeight == 7

DefaultTextWeight == 3

\* the value a weight parameter is bound to: the argument when the caller
\* passes one, the parameter's default otherwise
BoundWeight(arg, default) ==
  IF arg = Missing THEN default ELSE CHOOSE w \in arg : TRUE

\* fuse_search_results(vector_results, text_results)
InitDefault ==
  /\ vector_results \in SeqsUpTo(VectorHits, MaxLen)
  /\ text_results \in SeqsUpTo(TextHits, MaxLen)
  /\ vector_weight = BoundWeight(Missing, DefaultVectorWeight)
  /\ text_weight = BoundWeight(Missing, DefaultTextWeight)
  /\ combined_results = <<>>
  /\ rank = 0
  /\ pc = "vector"
  /\ sorted_results = <<>>
  /\ aliased = {}
  /\ OwnerInTestPhase
  /\ NoPair
  /\ RunInTestPhase

SpecDefault == InitDefault /\ [][Next]_vars

(* C23: a call that specifies no weight applies weight 1.0 to both
   pipelines: the hybrid_score of every returned entry is
   1/(r_v + 60) + 1/(r_t + 60), each term over a pipeline that contains the
   candidate at that rank (weight 1.0 is 10 tenths). *)
C23_DefaultWeightIsOne ==
  Returned =>
    \A j \in 1..Len(sorted_results) :
      LET e == sorted_results[j] IN
        \E x \in Contributions(vector_results, e._id, 10),
           y \in Contributions(text_results, e._id, 10) :
          RatEq(e.hybrid_score, RatAdd(x, y))


----------------------------------------------------------------------------
(* Server versions and the capability flags computed from them *)

\* the decimal digits, in order
DigitChars == <<"0", "1", "2", "3", "4", "5", "6", "7", "8", "9">>

IsDigit(c) == \E n \in 1..10 : DigitChars[n] = c

DigitValue(c) == (CHOOSE n \in 1..10 : DigitChars[n] = c) - 1

\* the decimal numeral of n < 100, as the server prints a version component
Numeral(n) ==
  IF n < 10 THEN <<DigitChars[n + 1]>>
  ELSE <<DigitChars[(n \div 10) + 1], DigitChars[(n % 10) + 1]>>

\* the version strings buildInfo reports: major.minor.patch
Majors == {2, 3, 4, 7, 8, 9, 10}

Minors == {0, 1, 3, 4, 6, 10}

ReleaseVersion(major, minor) ==
  Numeral(major) \o <<".">> \o Numeral(minor) \o <<".", "4">>

\* a release candidate: major.minor.0-rc0
PreReleaseVersion(major, minor) ==
  Numeral(major) \o <<".">> \o Numeral(minor) \o <<".", "0", "-", "r", "c", "0">>

Versions ==
  {ReleaseVersion(major, minor) : major \in Majors, minor \in Minors}
    \cup {PreReleaseVersion(8, 1)}

\* version.split('.')
RECURSIVE Split(_)
Split(s) ==
  IF s = <<>> THEN << <<>> >>
  ELSE LET rest == Split(Tail(s)) IN
    IF Head(s) = "." THEN << <<>> >> \o rest
    ELSE << <<Head(s)>> \o Head(rest) >> \o Tail(rest)

\* the value of a sequence of digits
RECURSIVE IntValue(_)
IntValue(x) ==
  IF x = <<>> THEN 0
  ELSE IntValue(SubSeq(x, 1, Len(x) - 1)) * 10 + DigitValue(x[Len(x)])

\* int(x): {} when it raises ValueError (x empty or not all digits)
IntOf(x) ==
  IF x # <<>> /\ \A j \in 1..Len(x) : IsDigit(x[j]) THEN {IntValue(x)} ELSE {}

\* [int(x) for x in version.split('.')]: {} when an int(x) raises
VersionParts(v) ==
  LET parts == Split(v) IN
    IF \E j \in 1..Len(parts) : IntOf(parts[j]) = {} THEN {}
    ELSE {[j \in 1..Len(parts) |-> CHOOSE n \in IntOf(parts[j]) : TRUE]}

\* mutant of RankFusionSupported: the versions are compared as the strings
\* of their first components compare (every 8.x qualifies, 10 < 8)
MutRankFusionSupported(major, minor) == major \in {8, 9}

\* major > 8 or (major == 8 and minor >= 1)
RankFusionSupported(major, minor) == major > 8 \/ (major = 8 /\ minor >= 1)

\* major >= 3 and minor >= 6
ChangeStreamsSupported(major, minor) == major >= 3 /\ minor >= 6

\* major >= 3 and minor >= 4
GraphLookupSupported(major, minor) == major >= 3 /\ minor >= 4

\* AtlasVersionChecker.check_feature_support: the dict it returns, {} when
\* it raises (ValueError from int, IndexError from version_parts[1])
CheckFeatureSupport(v) ==
  IF VersionParts(v) = {} THEN {}
  ELSE LET version_parts == CHOOSE x \in VersionParts(v) : TRUE IN
    IF Len(version_parts) < 2 THEN {}
    ELSE LET major == version_parts[1]
             minor == version_parts[2] IN
      {[version |-> v,
        rankFusion |-> RankFusionSupported(major, minor),
        vectorSearch |-> major >= 7,
        search |-> major >= 4,
        changeStreams |-> ChangeStreamsSupported(major, minor),
        graphLookup |-> GraphLookupSupported(major, minor)]}

\* the flag RealHybridSearchTest.setup computes: {} when it raises;
\* version_parts[1] is read only when version_parts[0] == 8
RealHybridSupported(v) ==
  IF VersionParts(v) = {} THEN {}
  ELSE LET version_parts == CHOOSE x \in VersionParts(v) : TRUE IN
    IF version_parts[1] > 8 THEN {TRUE}
    ELSE IF version_parts[1] # 8 THEN {FALSE}
    ELSE IF Len(version_parts) < 2 THEN {}
    ELSE {version_parts[2] >= 1}

\* the flag RealRankFusionTest.setup computes: the same expression
RealRankFusionSupported(v) ==
  IF VersionParts(v) = {} THEN {}
  ELSE LET version_parts == CHOOSE x \in VersionParts(v) : TRUE IN
    IF version_parts[1] > 8 THEN {TRUE}
    ELSE IF version_parts[1] # 8 THEN {FALSE}
    ELSE IF Len(version_parts) < 2 THEN {}
    ELSE {version_parts[2] >= 1}


----------------------------------------------------------------------------
(* The top-level runs: run_all_tests of the four test scripts and
   run_complete_check of the version checker *)

Scripts == {"working", "real_hybrid", "rankfusion", "version_check", "emotional"}

\* the scripts whose setup computes the $rankFusion flag and returns it
RealScripts == {"real_hybrid", "rankfusion"}

TestCase(name, expected_docs) == [name |-> name, expected_docs |-> expected_docs]

\* the test cases of each test phase of a script, in the order the script
\* runs them
Phases(s) ==
  CASE s = "working" ->
         << <<TestCase("AI and Machine Learning Query", {"doc1", "doc4"}),
              TestCase("Performance Optimization Query", {"doc2", "doc3"}),
              TestCase("Customer Experience Query", {"doc5"})>> >>
    [] s = "real_hybrid" ->
         << <<TestCase("AI and Machine Learning Query", {"doc1", "doc4"}),
              TestCase("Performance Optimization Query", {"doc2", "doc3"}),
              TestCase("Customer Experience Query", {"doc5"})>> >>
    [] s = "rankfusion" ->
         << <<TestCase("AI Machine Learning Performance Query",
                       {"ai_roi_1", "ai_success_1", "ml_performance_1"}),
              TestCase("Performance Optimization Query",
                       {"db_opt_1", "mobile_perf_1", "ml_performance_1"}),
              TestCase("Customer AI Support Query",
                       {"customer_sat_1", "ai_success_1"})>> >>
    [] s = "emotional" ->
         << <<TestCase("Joy Detection", {}),
              TestCase("Anger Detection", {}),
              TestCase("Fear Detection", {}),
              TestCase("Neutral Detection", {}),
              TestCase("Mixed Emotions", {})>>,
            <<TestCase("Emotional State Processing", {})>>,
            <<TestCase("Emotional Pattern Analysis", {})>>,
            <<TestCase("Customer Support - Angry Customer", {}),
              TestCase("Project Management - Success", {}),
              TestCase("Technical Support - Confusion", {})>> >>
    [] s = "version_check" -> <<>>

\* a complete hit of a seeded document, and a hit that lacks its title
DocHit(id) == Hit(id, {"title"}, {"content"}, {"category"}, {5}, {2})

UntitledHit(id) == Hit(id, Missing, {"content"}, {"category"}, {5}, {2})

\* what an aggregate() can give: {} when it raises, {list} otherwise
WorkingVectorOutcomes ==
  {{}, {<<>>}, {<<DocHit("doc1")>>}, {<<DocHit("doc3"), DocHit("doc5")>>},
   {<<UntitledHit("doc2")>>}}

WorkingTextOutcomes ==
  {{}, {<<>>}, {<<DocHit("doc5")>>}, {<<DocHit("doc1"), DocHit("doc3")>>}}

RealHybridOutcomes ==
  {{}, {<<>>}, {<<DocHit("doc1")>>}, {<<DocHit("doc3"), DocHit("doc5")>>},
   {<<UntitledHit("doc2")>>}}

RankFusionOutcomes ==
  {{}, {<<>>}, {<<DocHit("ai_roi_1")>>},
   {<<DocHit("db_opt_1"), DocHit("customer_sat_1")>>},
   {<<UntitledHit("mobile_perf_1")>>}}

\* the record the try block appends
ResultRecord(test_case, passed) ==
  [test |-> test_case.name, passed |-> passed, error |-> {}]

\* mutant of ErrorRecords: the except block only prints
MutErrorRecords(test_case) == <<>>

\* the records the except block appends: one, passed False, with str(error)
ErrorRecords(test_case) ==
  <<[test |-> test_case.name, passed |-> FALSE, error |-> {"error"}]>>

\* found_expected: any expected id is among the ids of the results
FoundExpected(test_case, results) ==
  \E expected_id \in test_case.expected_docs : expected_id \in Keys(results)

\* the outcome of a test case: the records it appends and the search stages
\* it issued
CaseOutcome(records, stages) == [records |-> records, queried |-> stages]

\* one test case of test_working_hybrid_search, the two aggregates giving v
\* and t
WorkingCase(test_case, v, t) ==
  IF v = {} THEN CaseOutcome(ErrorRecords(test_case), {"$vectorSearch"})
  ELSE IF t = {}
    THEN CaseOutcome(ErrorRecords(test_case), {"$vectorSearch", "$search"})
  ELSE LET hybrid == FuseSearchResults(CHOOSE x \in v : TRUE,
                                       CHOOSE x \in t : TRUE, 7, 3) IN
    IF hybrid.raised
      THEN CaseOutcome(ErrorRecords(test_case), {"$vectorSearch", "$search"})
      ELSE CaseOutcome(
             <<ResultRecord(test_case,
                            Len(hybrid.list) > 0
                              /\ FoundExpected(test_case, hybrid.list))>>,
             {"$vectorSearch", "$search"})

\* one test case of test_rank_fusion_hybrid_search: the $rankFusion
\* aggregate gives h, the results are printed with their title, then the
\* vector-only and text-only aggregates run (others: which of them raises)
RealHybridCase(test_case, h, others) ==
  IF h = {} THEN CaseOutcome(ErrorRecords(test_case), {"$rankFusion"})
  ELSE LET hybrid_results == CHOOSE x \in h : TRUE IN
    IF \E j \in 1..Len(hybrid_results) : hybrid_results[j].title = Missing
      THEN CaseOutcome(ErrorRecords(test_case), {"$rankFusion"})
    ELSE IF others = "vector raises"
      THEN CaseOutcome(ErrorRecords(test_case), {"$rankFusion", "$vectorSearch"})
    ELSE IF others = "text raises"
      THEN CaseOutcome(ErrorRecords(test_case),
                       {"$rankFusion", "$vectorSearch", "$search"})
    ELSE CaseOutcome(
           <<ResultRecord(test_case,
                          Len(hybrid_results) > 0
                            /\ FoundExpected(test_case, hybrid_results))>>,
           {"$rankFusion", "$vectorSearch", "$search"})

\* one test case of test_real_rankfusion_hybrid_search: the $rankFusion
\* aggregate gives h, the results are printed with their title, and
\* _compare_individual_searches swallows its own errors
RankFusionCase(test_case, h) ==
  IF h = {} THEN CaseOutcome(ErrorRecords(test_case), {"$rankFusion"})
  ELSE LET hybrid_results == CHOOSE x \in h : TRUE IN
    IF \E j \in 1..Len(hybrid_results) : hybrid_results[j].title = Missing
      THEN CaseOutcome(ErrorRecords(test_case), {"$rankFusion"})
    ELSE CaseOutcome(
           <<ResultRecord(test_case,
                          Len(hybrid_results) > 0
                            /\ FoundExpected(test_case, hybrid_results))>>,
           {"$rankFusion", "$vectorSearch"})

\* one test case of the emotional intelligence phases: the engine raises,
\* or returns what the case validates (passed) or does not
EmotionalCase(test_case, engine) ==
  IF engine = "raises" THEN CaseOutcome(ErrorRecords(test_case), {})
  ELSE CaseOutcome(<<ResultRecord(test_case, engine = "as expected")>>, {})

\* passed = len([r for r in self.test_results if r['passed']])
RECURSIVE Passed(_)
Passed(results) ==
  IF results = <<>> THEN 0
  ELSE Passed(Tail(results)) + (IF Head(results).passed THEN 1 ELSE 0)

\* mutant of Percentage: the guard against an empty test_results is missing;
\* the division raises ZeroDivisionError ({})
MutPercentage(passed, total) == IF total > 0 THEN {<<passed * 100, total>>} ELSE {}

\* percentage = (passed / total * 100) if total > 0 else 0, as a rational;
\* {} would be a raised ZeroDivisionError
Percentage(passed, total) ==
  IF total > 0 THEN {<<passed * 100, total>>} ELSE {Zero}

\* if percentage >= 80: the success banner, else the needs-attention banner
Banner(percentage) ==
  IF RatLeq(<<80, 1>>, percentage) THEN "success" ELSE "needs attention"

\* what print_summary prints; {} when it raises
PrintSummary(results) ==
  LET passed == Passed(results)
      total == Len(results)
      percentage == Percentage(passed, total) IN
    IF percentage = {} THEN {}
    ELSE {[passed |-> passed, total |-> total, failed |-> total - passed,
           percentage |-> CHOOSE x \in percentage : TRUE,
           banner |-> Banner(CHOOSE x \in percentage : TRUE)]}

IndexNames == {"vector_index", "text_index"}

\* the scripts that call create_search_indexes
IndexingScripts == {"working", "real_hybrid"}

\* the test collection before the run: neither cleared nor seeded by it, no
\* index created by it; existing are the search indexes an earlier run left
Collection(existing) ==
  [cleared |-> FALSE, seeded |-> FALSE, existing |-> existing, created |-> {}]

\* no call of fuse_search_results is open
NoCall ==
  /\ vector_results = <<>>
  /\ text_results = <<>>
  /\ vector_weight = DefaultVectorWeight
  /\ text_weight = DefaultTextWeight
  /\ combined_results = <<>>
  /\ rank = 0
  /\ pc = "done"
  /\ sorted_results = <<>>
  /\ aliased = {}

\* the object after __init__, about to run against a server of some version
InitRun ==
  /\ script \in Scripts
  /\ version \in (IF script = "emotional" THEN {<<>>} ELSE Versions)
  /\ hpc = "setup"
  /\ is_supported = {}
  /\ features = {}
  /\ closes = 0
  /\ queried = {}
  /\ phase = 1
  /\ case_index = 1
  /\ summary = {}
  /\ client = "None"
  /\ collection \in {Collection(existing) :
                        existing \in IF script \in IndexingScripts
                                       THEN SUBSET IndexNames ELSE {{}}}
  /\ test_results = <<>>
  /\ NoCall
  /\ NoPair


\* the connection attempt of setup / check_cluster_info: the client
\* constructor raises, or the client is created and a command raises, or
\* all commands succeed
Connections == {"no client", "command raises", "connected"}

\* setup of WorkingHybridSearchTest, then run_all_tests goes on to seeding;
\* an exception is re-raised and caught by run_all_tests
WorkingSetup ==
  /\ script = "working"
  /\ hpc = "setup"
  /\ \E c \in Connections :
       /\ client' = IF c = "no client" THEN client ELSE "client"
       /\ hpc' = IF c = "connected" THEN "seed" ELSE "finally"
  /\ UNCHANGED <<script, version, is_supported, features, closes, queried,
                 phase, case_index, summary, collection, test_results,
                 callVars, pairVars>>

\* mutant of AfterSetup: run_all_tests does not test what setup returned
MutAfterSetup(flag) == "seed"

\* `if not is_supported: return` in run_all_tests: the run goes on to
\* seeding only when setup returned True, else it returns (finally runs)
AfterSetup(flag) == IF flag = {TRUE} THEN "seed" ELSE "finally"

\* setup of RealHybridSearchTest / RealRankFusionTest and the test of its
\* result in run_all_tests
RealSetup ==
  /\ script \in RealScripts
  /\ hpc = "setup"
  /\ \E c \in Connections :
       LET flag == IF script = "real_hybrid"
                     THEN RealHybridSupported(version)
                     ELSE RealRankFusionSupported(version) IN
         /\ client' = IF c = "no client" THEN client ELSE "client"
         /\ IF c = "connected" /\ flag # {}
              THEN /\ is_supported' = flag
                   /\ hpc' = AfterSetup(flag)
              ELSE /\ is_supported' = is_supported
                   /\ hpc' = "finally"
  /\ UNCHANGED <<script, version, features, closes, queried, phase,
                 case_index, summary, collection, test_results,
                 callVars, pairVars>>

\* setup of EmotionalIntelligenceTest: the client is a local, nothing is
\* caught; run_all_tests has no finally clause
EmotionalSetup ==
  /\ script = "emotional"
  /\ hpc = "setup"
  /\ \E ok \in BOOLEAN : hpc' = IF ok THEN "tests" ELSE "returned"
  /\ UNCHANGED <<script, version, is_supported, features, closes, queried,
                 phase, case_index, summary, ownerVars, callVars, pairVars>>

\* check_cluster_info and the test of its result in run_complete_check:
\* an exception makes it return None, `if not build_info: return`
CheckClusterInfo ==
  /\ script = "version_check"
  /\ hpc = "setup"
  /\ \E c \in Connections :
       /\ client' = IF c = "no client" THEN client ELSE "client"
       /\ hpc' = IF c = "connected" THEN "features" ELSE "finally"
  /\ UNCHANGED <<script, version, is_supported, features, closes, queried,
                 phase, case_index, summary, collection, test_results,
                 callVars, pairVars>>

\* features = await self.check_feature_support(build_info)
CheckFeatureSupportCall ==
  /\ hpc = "features"
  /\ LET result == CheckFeatureSupport(version) IN
       /\ features' = result
       /\ hpc' = IF result = {} THEN "finally" ELSE "actual"
  /\ UNCHANGED <<script, version, is_supported, closes, queried, phase,
                 case_index, summary, ownerVars, callVars, pairVars>>

\* test_actual_features: it works on test_features.feature_test, not on the
\* test collection, and swallows every exception
TestActualFeatures ==
  /\ hpc = "actual"
  /\ hpc' = "upgrade"
  /\ UNCHANGED <<script, version, is_supported, features, closes, queried,
                 phase, case_index, summary, ownerVars, callVars, pairVars>>

\* check_upgrade_options(features['version']) and the closing prints; the
\* version was parsed by check_feature_support already, so int() succeeds
CheckUpgradeOptions ==
  /\ hpc = "upgrade"
  /\ hpc' = "finally"
  /\ UNCHANGED <<script, version, is_supported, features, closes, queried,
                 phase, case_index, summary, ownerVars, callVars, pairVars>>

\* seed_test_data: delete_many({}) then insert_many(test_documents); an
\* exception leaves the function and is caught by run_all_tests
SeedTestData ==
  /\ hpc = "seed"
  /\ \E o \in {"delete raises", "insert raises", "seeded"} :
       /\ collection' =
            [collection EXCEPT !.cleared = @ \/ o # "delete raises",
                               !.seeded = @ \/ o = "seeded"]
       /\ hpc' = IF o # "seeded" THEN "finally"
                 ELSE IF script = "rankfusion" THEN "tests" ELSE "indexes"
  /\ UNCHANGED <<script, version, is_supported, features, closes, queried,
                 phase, case_index, summary, client, test_results,
                 callVars, pairVars>>

\* the indexes create_search_indexes creates when the indexes in existing
\* exist already: creating an existing index raises, and both creations
\* stand in one try block, the vector index first, so the first error skips
\* what follows
IndexesCreated(existing) ==
  IF "vector_index" \in existing THEN {}
  ELSE IF "text_index" \in existing THEN {"vector_index"}
  ELSE {"vector_index", "text_index"}

\* create_search_indexes: the except block prints and the suite continues
CreateSearchIndexes ==
  /\ hpc = "indexes"
  /\ collection' =
       [collection EXCEPT !.created = IndexesCreated(collection.existing)]
  /\ hpc' = "tests"
  /\ UNCHANGED <<script, version, is_supported, features, closes, queried,
                 phase, case_index, summary, client, test_results,
                 callVars, pairVars>>

\* the test case the phase runs next
CurrentCase == Phases(script)[phase][case_index]

\* a test case is over: the loop goes to the next case, the next phase
\* starts, or the last phase returns and print_summary is next
Advance ==
  IF case_index < Len(Phases(script)[phase])
    THEN /\ case_index' = case_index + 1
         /\ UNCHANGED <<phase, hpc>>
  ELSE IF phase < Len(Phases(script))
    THEN /\ phase' = phase + 1
         /\ case_index' = 1
         /\ hpc' = hpc
  ELSE /\ case_index' = case_index + 1
       /\ phase' = phase
       /\ hpc' = "summary"

\* the effect of a test case with outcome o
Record(o) ==
  /\ test_results' = test_results \o o.records
  /\ queried' = queried \cup o.queried
  /\ Advance
  /\ UNCHANGED <<script, version, is_supported, features, closes, summary,
                 client, collection, callVars, pairVars>>

\* body of the loop of test_working_hybrid_search
WorkingTestCase ==
  /\ script = "working"
  /\ hpc = "tests"
  /\ \E v \in WorkingVectorOutcomes, t \in WorkingTextOutcomes :
       Record(WorkingCase(CurrentCase, v, t))

\* body of the loop of test_rank_fusion_hybrid_search
RealHybridTestCase ==
  /\ script = "real_hybrid"
  /\ hpc = "tests"
  /\ \E h \in RealHybridOutcomes, others \in {"vector raises", "text raises", "ok"} :
       Record(RealHybridCase(CurrentCase, h, others))

\* body of the loop of test_real_rankfusion_hybrid_search
RankFusionTestCase ==
  /\ script = "rankfusion"
  /\ hpc = "tests"
  /\ \E h \in RankFusionOutcomes : Record(RankFusionCase(CurrentCase, h))

\* one test case of a phase of EmotionalIntelligenceTest
EmotionalTestCase ==
  /\ script = "emotional"
  /\ hpc = "tests"
  /\ \E engine \in {"raises", "as expected", "not as expected"} :
       Record(EmotionalCase(CurrentCase, engine))

\* self.print_summary(), the last statement of the try block
PrintSummaryCall ==
  /\ hpc = "summary"
  /\ summary' = PrintSummary(test_results)
  /\ hpc' = IF script = "emotional" THEN "returned" ELSE "finally"
  /\ UNCHANGED <<script, version, is_supported, features, closes, queried,
                 phase, case_index, ownerVars, callVars, pairVars>>

\* mutant of Closes: the client is closed only when the summary was printed
MutCloses(c, printed) == IF c # "None" /\ printed # {} THEN 1 ELSE 0

\* the calls of close() the finally clause makes: if self.client:
\* self.client.close()
Closes(c, printed) == IF c # "None" THEN 1 ELSE 0

\* the finally clause of run_all_tests / run_complete_check; the run returns
Finally ==
  /\ hpc = "finally"
  /\ closes' = closes + Closes(client, summary)
  /\ hpc' = "returned"
  /\ UNCHANGED <<script, version, is_supported, features, queried, phase,
                 case_index, summary, ownerVars, callVars, pairVars>>

NextRun ==
  \/ WorkingSetup
  \/ RealSetup
  \/ EmotionalSetup
  \/ CheckClusterInfo
  \/ CheckFeatureSupportCall
  \/ TestActualFeatures
  \/ CheckUpgradeOptions
  \/ SeedTestData
  \/ CreateSearchIndexes
  \/ WorkingTestCase
  \/ RealHybridTestCase
  \/ RankFusionTestCase
  \/ EmotionalTestCase
  \/ PrintSummaryCall
  \/ Finally

SpecRun == InitRun /\ [][NextRun]_vars


----------------------------------------------------------------------------
(* print_summary on any test_results *)

MaxResults == 5

\* the three kinds of record a test case leaves
SummaryRecords ==
  {[test |-> "case", passed |-> TRUE, error |-> {}],
   [test |-> "case", passed |-> FALSE, error |-> {}],
   [test |-> "case", passed |-> FALSE, error |-> {"error"}]}

\* print_summary is about to run on some list of records
InitSummary ==
  /\ script \in Scripts \ {"version_check"}
  /\ version = <<>>
  /\ hpc = "summary"
  /\ is_supported = {}
  /\ features = {}
  /\ closes = 0
  /\ queried = {}
  /\ phase = 1
  /\ case_index = 1
  /\ summary = {}
  /\ client = IF script = "emotional" THEN "None" ELSE "client"
  /\ collection = SeededCollection
  /\ test_results \in SeqsUpTo(SummaryRecords, MaxResults)
  /\ NoCall
  /\ NoPair

NextSummary ==
  \/ PrintSummaryCall
  \/ Finally

SpecSummary == InitSummary /\ [][NextSummary]_vars

----------------------------------------------------------------------------
(* Vocabulary of the properties of the runs *)

\* (major, minor) is at least (M, m) in lexicographic order
VersionAtLeast(major, minor, M, m) == major > M \/ (major = M /\ minor >= m)

\* the server's version is major.minor, released or not
IsVersion(major, minor) ==
  version \in {ReleaseVersion(major, minor), PreReleaseVersion(major, minor)}

\* the names of all test cases of a script, in the order they run
RECURSIVE CaseNames(_)
CaseNames(phases) ==
  IF phases = <<>> THEN <<>>
  ELSE [j \in 1..Len(Head(phases)) |-> Head(phases)[j].name]
         \o CaseNames(Tail(phases))

\* the number of test cases the run has completed
RECURSIVE CasesBefore(_, _)
CasesBefore(phases, k) ==
  IF k <= 1 THEN 0 ELSE Len(phases[k - 1]) + CasesBefore(phases, k - 1)

Completed == CasesBefore(Phases(script), phase) + case_index - 1

\* the run is past create_search_indexes
IndexesOver ==
  /\ script \in IndexingScripts
  /\ collection.seeded
  /\ hpc \notin {"seed", "indexes"}

(* C24: the $rankFusion flag is true exactly when the server version's
   (major, minor) is at least (8, 1), and check_feature_support and the two
   setup functions compute the same flag for every version (or all raise). *)
C24_RankFusionFlag ==
  \A major \in Majors, minor \in Minors :
    IsVersion(major, minor) =>
      /\ is_supported \subseteq {VersionAtLeast(major, minor, 8, 1)}
      /\ \A f \in features : f.rankFusion = VersionAtLeast(major, minor, 8, 1)
      /\ RealHybridSupported(version) = RealRankFusionSupported(version)
      /\ {f.rankFusion : f \in CheckFeatureSupport(version)}
           = RealHybridSupported(version)

\* a setup found version 10.0 to support $rankFusion
C24_Witness ==
  /\ script \in RealScripts
  /\ version = ReleaseVersion(10, 0)
  /\ is_supported = {TRUE}

(* C25: check_feature_support reports Change Streams (minimum 3.6) and
   $graphLookup (minimum 3.4) as supported exactly for the server versions
   at or above the minimum in (major, minor) order. *)
C25_MinimumVersionFeatures ==
  \A major \in Majors, minor \in Minors :
    IsVersion(major, minor) =>
      \A f \in features :
        /\ f.changeStreams = VersionAtLeast(major, minor, 3, 6)
        /\ f.graphLookup = VersionAtLeast(major, minor, 3, 4)

(* C26: in the runs of RealHybridSearchTest and RealRankFusionTest, when
   setup reported $rankFusion unsupported no later phase runs (the
   collection is neither cleared nor seeded, no index is created, no search
   stage is issued, no result recorded, no summary printed), and a search
   stage is issued only after the collection was seeded. *)
C26_UnsupportedStopsRun ==
  script \in RealScripts =>
    /\ is_supported = {FALSE} =>
         /\ hpc \in {"finally", "returned"}
         /\ ~collection.cleared
         /\ ~collection.seeded
         /\ collection.created = {}
         /\ queried = {}
         /\ test_results = <<>>
         /\ summary = {}
    /\ queried # {} => collection.seeded

\* a run that returned because 8.0 does not support $rankFusion
C26_Witness ==
  /\ script \in RealScripts
  /\ version = ReleaseVersion(8, 0)
  /\ is_supported = {FALSE}
  /\ hpc = "returned"

(* C27: in the hybrid-search and version-check scripts, a client that was
   created is not closed while the run is under way, and has been closed
   exactly once when the run has returned, on every path; no close() is
   called when no client was created. *)
C27_ClientClosedOnce ==
  script # "emotional" =>
    /\ hpc # "returned" => closes = 0
    /\ hpc = "returned" => closes = (IF client = "client" THEN 1 ELSE 0)

\* a run whose seeding raised after clearing the collection returned with
\* its client closed
C27_Witness ==
  /\ hpc = "returned"
  /\ client = "client"
  /\ closes = 1
  /\ collection.cleared
  /\ ~collection.seeded
  /\ summary = {}

(* C28: every test case appends exactly one record, in test-case order: the
   records are those of the completed cases, by name; a record with an error
   text has passed = False; a step changes test_results only by appending
   one record, and a case that raised does not stop the phase (after the
   phases, all cases have a record). *)
C28_OneRecordPerCase ==
  /\ [](/\ Len(test_results) = Completed
        /\ \A j \in 1..Len(test_results) :
             /\ test_results[j].test = CaseNames(Phases(script))[j]
             /\ test_results[j].error # {} => ~test_results[j].passed
        /\ hpc \in {"summary", "finally", "returned"} /\ test_results # <<>>
             => Len(test_results) = Len(CaseNames(Phases(script))))
  /\ [][test_results' # test_results =>
          /\ Len(test_results') = Len(test_results) + 1
          /\ SubSeq(test_results', 1, Len(test_results)) = test_results]_vars

\* a phase in which the first case raised and a later case passed
C28_Witness ==
  /\ script = "working"
  /\ hpc = "summary"
  /\ test_results[1].error # {}
  /\ test_results[3].passed

(* C29: an error creating a search index (the index exists already) never
   aborts the suite: the test phase and the summary still run; and when the
   vector index exists already, the text index is created all the same. *)
C29_IndexErrorsSwallowed ==
  IndexesOver =>
    /\ hpc = "returned" => Len(test_results) = 3 /\ summary # {}
    /\ "text_index" \in collection.existing \cup collection.created

(* C30: print_summary reports passed + failed = total, never divides by
   zero (no records: percentage 0), and prints the success banner exactly
   when there is a record and passed / total >= 80%, the needs-attention
   banner otherwise. *)
C30_SummaryArithmetic ==
  /\ hpc \in {"finally", "returned"} => summary # {}
  /\ \A s \in summary :
       /\ s.total = Len(test_results)
       /\ s.passed + s.failed = s.total
       /\ s.passed = Cardinality({j \in 1..Len(test_results) : test_results[j].passed})
       /\ s.total = 0 => RatEq(s.percentage, Zero)
       /\ s.banner \in {"success", "needs attention"}
       /\ s.banner = "success" <=> (s.total > 0 /\ 100 * s.passed >= 80 * s.total)

\* the summary of four passed cases out of five: the threshold itself
C30_Witness ==
  /\ summary # {}
  /\ \A s \in summary : s.total = 5 /\ s.passed = 4 /\ s.banner = "success"

====
